---- MODULE Spec2Model ----
(***************************************************************************)
(* A model of the NovaPort-MCP workspace engine:                           *)
(*   - the workspace registry (novaport_mcp/db/database.py),               *)
(*   - the singleton contexts and their history interceptor                *)
(*     (conport/services/context_service.py,                               *)
(*      novaport_mcp/services/history_service.py),                         *)
(*   - the indexed entity services and the vector store                    *)
(*     (conport/services/*_service.py, conport/services/vector_service.py).*)
(*   - the tools built on them (conport/services/meta_service.py,          *)
(*     link_service.py, io_service.py, novaport_mcp/main.py).              *)
(* Each part has its own specification over the shared variables:          *)
(* Spec (registry), SpecContext (contexts), SpecStore (dual store),        *)
(* SpecCustomData, SpecProgress, SpecDelete (one tool group of the store), *)
(* SpecBatch, SpecSearch, SpecLinks, SpecActivity, SpecIO (tools),          *)
(* SpecPattern, SpecFts, SpecUpdate (single requests), SpecSessions        *)
(* (overlapping requests on a context, each with its own session) and      *)
(* SpecFair (the registry with the scheduling of the event loop).          *)
(***************************************************************************)
EXTENDS Integers, Sequences, FiniteSets, TLC

\* ---------------------------------------------------------------------
\* Bounds
\* ---------------------------------------------------------------------
NumTasks == 2
NumWorkspaces == 2
NumRevisions == 2
MaxCreates == 2
MaxUpdates == 3
MaxFaults == 1
MaxItems == 2
MaxDecisions == 2
MaxLinks == 2
MaxClock == 2
MaxStamped == 2
NumRequests == 2
MaxEntries == 2

Tasks == 1..NumTasks
Workspaces == 1..NumWorkspaces

\* status.HTTP_500_INTERNAL_SERVER_ERROR, the status of the HTTPException
\* raised when the initialization of a workspace fails
HTTP_500_INTERNAL_SERVER_ERROR == 500

VARIABLES
    \* ---- workspace registry -------------------------------------------
    workspace_locks,  \* keys of _workspace_locks (locks created so far)
    lock_holder,      \* per lock: the task holding it, 0 when unlocked
    lock_waiters,     \* per lock: FIFO queue of the tasks waiting for it
    session_locals,   \* _session_locals: per workspace the cached factory, 0 = absent
    engines,          \* _engines: per workspace the cached engine, 0 = absent
    pc,               \* per task: position inside get_session_local
    ws,               \* per task: the workspace_id argument of its call
    result,           \* per task: the session factory it returned, 0 = none
    error,            \* per task: status code of the HTTPException raised, 0 = none
    thread,           \* per task: the worker thread started by asyncio.to_thread
    schema,           \* per workspace: the committed Alembic revision of its database
    db_writer,        \* per workspace: the thread holding the write transaction, 0 = none
    inits,            \* per workspace: initializations started (history)
    aborted,          \* per workspace: initializations that failed or were cancelled (history)
    \* ---- singleton contexts -------------------------------------------
    context,          \* per context model: the row with id = 1 (exists, content)
    history,          \* per context model: the rows of its history table
    last_update,      \* the last update_context call and what it found (history)
    \* ---- relational store and vector store ----------------------------
    db,               \* per database path: the rows of the four indexed tables
    vec,              \* per vector path: the embeddings of the collection
    collections,      \* _collections: cache key -> vector path of the cached collection
    inflight,         \* the delete request that is between its two writes, or NoRequest
    created,          \* number of rows created so far (history, bounds the run)
    last_ws,          \* the workspace_id argument of the last request (history)
    faults,           \* number of injected store failures so far (history)
    last_delete,      \* the last delete call that reported success (history)
    last_upsert,      \* the value the request just served replaced by log_custom_data, 0 = none
    \* ---- tools built on the services ----------------------------------
    batch_result,     \* the last batch_log_items call and its outcome
    decisions,        \* the decisions table with the tags column (row id = position)
    decision_index,   \* the collection entries of these decisions: id and metadata
    search_results,   \* the last semantic_search_conport call and what it returned
    links,            \* the rows of context_links
    links_result,     \* the last get_linked_items call and its outcome
    clock,            \* datetime.datetime.utcnow()
    stamped,          \* decisions, progress entries and system patterns with their timestamp
    activity_result,  \* the last get_recent_activity_summary call and its outcome
    io_decisions,     \* the decisions of the exporting workspace (summary, rationale)
    io_file,          \* the content of decisions.md in the export directory
    io_imported,      \* the decisions of the importing workspace and the import status
    \* ---- outcomes of single requests ----------------------------------
    pattern_result,   \* the last log_system_pattern call that found its name taken
    fts_result,       \* the last full-text search call and its outcome
    sessions,         \* per HTTP request on a context: its position and what its session loaded
    entries,          \* progress_entries with its columns (row id = position)
    update_result     \* the last update_progress call and its outcome

registryVars == <<workspace_locks, lock_holder, lock_waiters, session_locals, engines,
                  pc, ws, result, error, thread, schema, db_writer, inits, aborted>>
contextVars == <<context, history, last_update>>
storeVars == <<db, vec, collections, inflight, created, last_ws, faults, last_delete,
               last_upsert>>
toolVars == <<batch_result, decisions, decision_index, search_results, links, links_result,
              clock, stamped, activity_result, io_decisions, io_file, io_imported>>
requestVars == <<pattern_result, fts_result, sessions, entries, update_result>>
vars == <<registryVars, contextVars, storeVars, toolVars, requestVars>>

\* =====================================================================
\* Workspace registry: novaport_mcp/db/database.py
\* =====================================================================

\* The lock of a workspace is the entry of _workspace_locks under its id.
LockKeyGlobal(w) == 1
LockKey(w) == w

\* Leaving `async with workspace_lock`, normally or with an exception:
\* the lock is released.
ReleaseLockNever(holder, k) == holder
ReleaseLock(holder, k) == [holder EXCEPT ![k] = 0]

\* Double-check of the cache after the lock was acquired.
DoubleCheckSkipped(w) == FALSE
DoubleCheck(w) == session_locals[w] # 0

\* What one cache (_engines or _session_locals) holds for workspace w once
\* the try block is left: the new object if the migration returned, and no
\* entry if an exception was raised (the except branch deletes it).
AfterInitNoCleanup(cache, w, ok, val) == [cache EXCEPT ![w] = val]
AfterInit(cache, w, ok, val) ==
    IF ok THEN [cache EXCEPT ![w] = val] ELSE [cache EXCEPT ![w] = 0]

\* The revision visible in the database file after a revision was applied
\* inside run_migrations_for_workspace: `with engine.begin()` keeps it in the
\* open transaction, so the committed revision stays what it was.
SchemaAfterStepAutocommit(committed, rev) == rev
SchemaAfterStep(committed, rev) == committed

NoThread == [st |-> "none", rev |-> 0]

InitRegistry ==
    /\ workspace_locks = {}
    /\ lock_holder = [k \in Workspaces |-> 0]
    /\ lock_waiters = [k \in Workspaces |-> <<>>]
    /\ session_locals = [w \in Workspaces |-> 0]
    /\ engines = [w \in Workspaces |-> 0]
    /\ pc = [t \in Tasks |-> "idle"]
    /\ ws = [t \in Tasks |-> 0]
    /\ result = [t \in Tasks |-> 0]
    /\ error = [t \in Tasks |-> 0]
    /\ thread = [t \in Tasks |-> NoThread]
    /\ schema = [w \in Workspaces |-> 0]
    /\ db_writer = [w \in Workspaces |-> 0]
    /\ inits = [w \in Workspaces |-> 0]
    /\ aborted = [w \in Workspaces |-> 0]

\* Lines 55-65 (and 74-85 when the set-up raises): task t owns the lock of
\* w and the cache has no entry.  Either the database url and the engine are
\* created and the migration is handed to a worker thread, or the set-up
\* raises and the except branch turns it into an HTTPException.
BeginInit(t, w) ==
    /\ inits' = [inits EXCEPT ![w] = @ + 1]
    /\ \/ /\ pc' = [pc EXCEPT ![t] = "migrating"]
          /\ thread' = [thread EXCEPT ![t] = [st |-> "started", rev |-> 0]]
          /\ lock_holder' = [lock_holder EXCEPT ![LockKey(w)] = t]
          /\ UNCHANGED <<session_locals, engines, error, aborted>>
       \/ /\ pc' = [pc EXCEPT ![t] = "raised"]
          /\ error' = [error EXCEPT ![t] = HTTP_500_INTERNAL_SERVER_ERROR]
          /\ session_locals' = AfterInit(session_locals, w, FALSE, t)
          /\ engines' = AfterInit(engines, w, FALSE, t)
          /\ lock_holder' = ReleaseLock(lock_holder, LockKey(w))
          /\ aborted' = [aborted EXCEPT ![w] = @ + 1]
          /\ UNCHANGED thread

\* Lines 42-50: the call up to its first suspension point.
get_session_local(t, w) ==
    /\ pc[t] = "idle"
    /\ ws' = [ws EXCEPT ![t] = w]
    /\ workspace_locks' = workspace_locks \cup {LockKey(w)}
    /\ IF session_locals[w] # 0
       THEN /\ pc' = [pc EXCEPT ![t] = "returned"]
            /\ result' = [result EXCEPT ![t] = session_locals[w]]
            /\ UNCHANGED <<lock_holder, lock_waiters, session_locals, engines,
                           error, thread, inits, aborted>>
       ELSE IF lock_holder[LockKey(w)] = 0 /\ lock_waiters[LockKey(w)] = <<>>
            THEN /\ BeginInit(t, w)
                 /\ UNCHANGED <<lock_waiters, result>>
            ELSE /\ pc' = [pc EXCEPT ![t] = "waiting"]
                 /\ lock_waiters' = [lock_waiters EXCEPT ![LockKey(w)] = Append(@, t)]
                 /\ UNCHANGED <<lock_holder, session_locals, engines, result,
                                error, thread, inits, aborted>>
    /\ UNCHANGED <<schema, db_writer, contextVars, storeVars, toolVars, requestVars>>

\* Lines 50-65: a waiting task is woken with the lock, first in first out.
lock_acquired(t) ==
    /\ pc[t] = "waiting"
    /\ lock_holder[LockKey(ws[t])] = 0
    /\ lock_waiters[LockKey(ws[t])] # <<>>
    /\ Head(lock_waiters[LockKey(ws[t])]) = t
    /\ lock_waiters' = [lock_waiters EXCEPT ![LockKey(ws[t])] = Tail(@)]
    /\ IF DoubleCheck(ws[t])
       THEN /\ pc' = [pc EXCEPT ![t] = "returned"]
            /\ result' = [result EXCEPT ![t] = session_locals[ws[t]]]
            /\ UNCHANGED <<lock_holder, session_locals, engines, error, thread,
                           inits, aborted>>
       ELSE /\ BeginInit(t, ws[t])
            /\ UNCHANGED result
    /\ UNCHANGED <<workspace_locks, ws, schema, db_writer, contextVars, storeVars, toolVars,
        requestVars>>

\* run_migrations_for_workspace, in the worker thread: engine.begin() opens
\* the transaction on the workspace's database (single writer).
run_migrations_begin(t) ==
    /\ thread[t].st = "started"
    /\ db_writer[ws[t]] = 0
    /\ thread' = [thread EXCEPT ![t] = [st |-> "in_txn", rev |-> schema[ws[t]]]]
    /\ db_writer' = [db_writer EXCEPT ![ws[t]] = t]
    /\ UNCHANGED <<workspace_locks, lock_holder, lock_waiters, session_locals, engines,
                   pc, ws, result, error, schema, inits, aborted,
                   contextVars, storeVars, toolVars, requestVars>>

\* command.upgrade applies the next pending revision.
run_migrations_step(t) ==
    /\ thread[t].st = "in_txn"
    /\ thread[t].rev < NumRevisions
    /\ thread' = [thread EXCEPT ![t].rev = @ + 1]
    /\ schema' = [schema EXCEPT ![ws[t]] = SchemaAfterStep(@, thread[t].rev + 1)]
    /\ UNCHANGED <<workspace_locks, lock_holder, lock_waiters, session_locals, engines,
                   pc, ws, result, error, db_writer, inits, aborted,
                   contextVars, storeVars, toolVars, requestVars>>

\* The with block is left normally: the transaction commits.
run_migrations_commit(t) ==
    /\ thread[t].st = "in_txn"
    /\ thread[t].rev = NumRevisions
    /\ thread' = [thread EXCEPT ![t].st = "ok"]
    /\ schema' = [schema EXCEPT ![ws[t]] = thread[t].rev]
    /\ db_writer' = [db_writer EXCEPT ![ws[t]] = 0]
    /\ UNCHANGED <<workspace_locks, lock_holder, lock_waiters, session_locals, engines,
                   pc, ws, result, error, inits, aborted, contextVars, storeVars, toolVars,
                   requestVars>>

\* The migration raises (a failing revision, a locked database): the with
\* block rolls the transaction back and the exception leaves the thread.
run_migrations_fail(t) ==
    /\ thread[t].st \in {"started", "in_txn"}
    /\ thread' = [thread EXCEPT ![t].st = "err"]
    /\ db_writer' = [db_writer EXCEPT ![ws[t]] = IF @ = t THEN 0 ELSE @]
    /\ UNCHANGED <<workspace_locks, lock_holder, lock_waiters, session_locals, engines,
                   pc, ws, result, error, schema, inits, aborted,
                   contextVars, storeVars, toolVars, requestVars>>

\* Lines 65-87: the awaiting task resumes with the outcome of the thread.
to_thread_return(t) ==
    /\ pc[t] = "migrating"
    /\ thread[t].st \in {"ok", "err"}
    /\ engines' = AfterInit(engines, ws[t], thread[t].st = "ok", t)
    /\ session_locals' = AfterInit(session_locals, ws[t], thread[t].st = "ok", t)
    /\ lock_holder' = ReleaseLock(lock_holder, LockKey(ws[t]))
    /\ IF thread[t].st = "ok"
       THEN /\ pc' = [pc EXCEPT ![t] = "returned"]
            /\ result' = [result EXCEPT ![t] = session_locals'[ws[t]]]
            /\ UNCHANGED <<error, aborted>>
       ELSE /\ pc' = [pc EXCEPT ![t] = "raised"]
            /\ error' = [error EXCEPT ![t] = HTTP_500_INTERNAL_SERVER_ERROR]
            /\ aborted' = [aborted EXCEPT ![ws[t]] = @ + 1]
            /\ UNCHANGED result
    /\ UNCHANGED <<workspace_locks, lock_waiters, ws, thread, schema, db_writer, inits,
                   contextVars, storeVars, toolVars, requestVars>>

\* The request is cancelled at a suspension point: CancelledError is not an
\* Exception, so the except branch is skipped; `async with` releases the
\* lock if the task holds it.  The worker thread is not affected.
cancel(t) ==
    /\ pc[t] \in {"waiting", "migrating"}
    /\ pc' = [pc EXCEPT ![t] = "cancelled"]
    /\ IF pc[t] = "waiting"
       THEN /\ lock_waiters' = [lock_waiters EXCEPT ![LockKey(ws[t])] =
                                   SelectSeq(@, LAMBDA u : u # t)]
            /\ UNCHANGED <<lock_holder, aborted>>
       ELSE /\ lock_holder' = ReleaseLock(lock_holder, LockKey(ws[t]))
            /\ aborted' = [aborted EXCEPT ![ws[t]] = @ + 1]
            /\ UNCHANGED lock_waiters
    /\ UNCHANGED <<workspace_locks, session_locals, engines, ws, result, error,
                   thread, schema, db_writer, inits, contextVars, storeVars, toolVars,
                   requestVars>>

\* =====================================================================
\* Singleton contexts and the history interceptor:
\* conport/services/context_service.py, novaport_mcp/services/history_service.py
\* =====================================================================

ContextModels == {"ProductContext", "ActiveContext"}
Keys == {"a", "b"}
Values == {"v1", "v2"}
DELETE == "__DELETE__"

\* JSON objects are functions from a set of keys to values.
EmptyDict == [k \in {} |-> "v1"]
Dicts == UNION {[D -> Values] : D \in SUBSET Keys}
Patches == UNION {[D -> Values \cup {DELETE}] : D \in SUBSET Keys}
ContextUpdates == [kind : {"content"}, data : Dicts] \cup [kind : {"patch_content"}, data : Patches]

NoUpdate == [seq |-> 0, model |-> "none", kind |-> "none", data |-> EmptyDict,
             before |-> EmptyDict, changed |-> FALSE]

InitContext ==
    /\ context = [m \in ContextModels |-> [exists |-> FALSE, content |-> EmptyDict]]
    /\ history = [m \in ContextModels |-> <<>>]
    /\ last_update = NoUpdate

\* The loop of update_context over patch_content.items(): a key whose value
\* is "__DELETE__" is popped, every other key is assigned.
ApplyPatchAssignAll(current_content, patch_content) ==
    [k \in DOMAIN current_content \cup DOMAIN patch_content |->
        IF k \in DOMAIN patch_content THEN patch_content[k] ELSE current_content[k]]
ApplyPatch(current_content, patch_content) ==
    LET popped == {k \in DOMAIN patch_content : patch_content[k] = DELETE}
        assigned == DOMAIN patch_content \ popped
    IN [k \in (DOMAIN current_content \ popped) \cup assigned |->
            IF k \in assigned THEN patch_content[k] ELSE current_content[k]]

\* new_content of update_context.
NewContent(current_content, update_data) ==
    IF update_data.kind = "content"
    THEN update_data.data
    ELSE ApplyPatch(current_content, update_data.data)

\* select(version).order_by(version.desc()).limit(1) ... or 0
RECURSIVE LatestVersion(_)
LatestVersion(rows) ==
    IF rows = <<>> THEN 0
    ELSE LET rest == LatestVersion(Tail(rows))
         IN IF Head(rows).version > rest THEN Head(rows).version ELSE rest

ChangeSource(m) == IF m = "ProductContext" THEN "ProductContext Update"
                   ELSE "ActiveContext Update"

\* _add_history: the after_update listener.  The attribute history of
\* `content` has a deleted value only if the new value differs from the one
\* loaded; the new row takes the latest version + 1 and the old content.
add_history_new_content(rows, m, old_content, new_content) ==
    IF old_content = new_content THEN rows
    ELSE Append(rows, [version |-> LatestVersion(rows) + 1, content |-> new_content,
                       change_source |-> ChangeSource(m)])
add_history(rows, m, old_content, new_content) ==
    IF old_content = new_content THEN rows
    ELSE Append(rows, [version |-> LatestVersion(rows) + 1, content |-> old_content,
                       change_source |-> ChangeSource(m)])

\* The history table after update_context: the instance is written and
\* flushed (which runs the listener) only if new_content != current_content.
HistoryAfterUpdateAlways(rows, m, current_content, new_content) ==
    Append(rows, [version |-> LatestVersion(rows) + 1, content |-> current_content,
                  change_source |-> ChangeSource(m)])
HistoryAfterUpdate(rows, m, current_content, new_content) ==
    IF new_content # current_content
    THEN add_history(rows, m, current_content, new_content)
    ELSE rows

\* _get_or_create: the first read creates the row id = 1 with content {}.
get_context(m) ==
    /\ ~context[m].exists
    /\ context' = [context EXCEPT ![m] = [exists |-> TRUE, content |-> EmptyDict]]
    /\ UNCHANGED <<history, last_update, registryVars, storeVars, toolVars, requestVars>>

\* update_product_context / update_active_context: _get_or_create, then
\* update_context, with the history listener run by the commit.
update_context(m, update_data) ==
    LET current_content == context[m].content
        new_content == NewContent(current_content, update_data)
    IN /\ last_update.seq < MaxUpdates
       /\ context' = [context EXCEPT ![m] = [exists |-> TRUE, content |-> new_content]]
       /\ history' = [history EXCEPT ![m] =
                         HistoryAfterUpdate(@, m, current_content, new_content)]
       /\ last_update' = [seq |-> last_update.seq + 1, model |-> m,
                          kind |-> update_data.kind, data |-> update_data.data,
                          before |-> current_content,
                          changed |-> new_content # current_content]
       /\ UNCHANGED <<registryVars, storeVars, toolVars, requestVars>>

\* read_product_context / update_product_context of the HTTP API, first
\* step: the session of request r runs the query of _get_or_create.  A row
\* that is found is loaded into the session: a read returns it, an update
\* goes on with it.  If there is no row the request goes on to create it.
request_query(r, m, kind, data) ==
    /\ sessions[r].pc = "idle"
    /\ sessions' = [sessions EXCEPT ![r] =
          [pc |-> IF ~context[m].exists THEN "creating"
                  ELSE IF kind = "read" THEN "done" ELSE "loaded",
           kind |-> kind, model |-> m, data |-> data,
           loaded |-> context[m].content, before |-> EmptyDict, version |-> 0]]
    /\ UNCHANGED <<context, history, last_update, pattern_result, fts_result, entries, update_result,
                   registryVars, storeVars, toolVars>>

\* _get_or_create, second step: db.add(model(id=1, content={})); db.commit().
\* If another session has committed the row in the meantime the INSERT
\* violates the primary key, the commit raises IntegrityError and the
\* request fails.
create_commit(r) ==
    LET m == sessions[r].model
    IN /\ sessions[r].pc = "creating"
       /\ IF context[m].exists
          THEN /\ sessions' = [sessions EXCEPT ![r].pc = "raised"]
               /\ UNCHANGED context
          ELSE /\ context' = [context EXCEPT ![m] = [exists |-> TRUE, content |-> EmptyDict]]
               /\ sessions' = [sessions EXCEPT
                     ![r].pc = IF sessions[r].kind = "read" THEN "done" ELSE "loaded",
                     ![r].loaded = EmptyDict]
       /\ UNCHANGED <<history, last_update, pattern_result, fts_result, entries, update_result,
                      registryVars, storeVars, toolVars>>

\* update_context in the session of request r: new_content is computed from
\* the content the session loaded; if it differs, the UPDATE of the row and
\* the history row of the after_update listener (old content: the loaded
\* value, version: the latest one in the table + 1) are committed together.
\* before and version record what the row held when the commit happened and
\* which history row the request added.
update_commit(r) ==
    LET m == sessions[r].model
        current_content == sessions[r].loaded
        new_content == NewContent(current_content,
                                  [kind |-> sessions[r].kind, data |-> sessions[r].data])
    IN /\ sessions[r].pc = "loaded"
       /\ context' = [context EXCEPT ![m].content =
                         IF new_content # current_content THEN new_content ELSE @]
       /\ history' = [history EXCEPT ![m] =
                         HistoryAfterUpdate(@, m, current_content, new_content)]
       /\ sessions' = [sessions EXCEPT
             ![r].pc = "done",
             ![r].before = context[m].content,
             ![r].version = IF new_content # current_content
                            THEN LatestVersion(history[m]) + 1 ELSE 0]
       /\ UNCHANGED <<last_update, pattern_result, fts_result, entries, update_result,
                      registryVars, storeVars, toolVars>>

\* dictdiffer.diff(content_a, content_b) for flat objects: the keys whose value
\* changed with both values, the keys added and the keys removed.
Diff(content_a, content_b) ==
    [change |-> {<<k, content_a[k], content_b[k]>> :
                    k \in {j \in DOMAIN content_a \cap DOMAIN content_b :
                              content_a[j] # content_b[j]}},
     add |-> {<<k, content_b[k]>> : k \in DOMAIN content_b \ DOMAIN content_a},
     remove |-> {<<k, content_a[k]>> : k \in DOMAIN content_a \ DOMAIN content_b}]

\* db.query(history_model).filter_by(version=version).first()
VersionRecord(rows, version) ==
    LET found == {i \in 1..Len(rows) : rows[i].version = version}
    IN IF found = {} THEN <<>>
       ELSE <<rows[CHOOSE i \in found : \A j \in found : i <= j]>>

\* The diff_context_versions tool: an error naming the first version that
\* is missing, else the diff of the contents of the two history rows.
diff_context_versions(m, version_a, version_b) ==
    LET version_a_record == VersionRecord(history[m], version_a)
        version_b_record == VersionRecord(history[m], version_b)
    IN IF version_a_record = <<>> THEN [error |-> "not found", version |-> version_a]
       ELSE IF version_b_record = <<>> THEN [error |-> "not found", version |-> version_b]
       ELSE Diff(version_a_record[1].content, version_b_record[1].content)

\* =====================================================================
\* Indexed entity services and the vector store:
\* conport/services/{decision,progress,system_pattern,custom_data}_service.py,
\* conport/services/vector_service.py, conport/core/config.py
\* =====================================================================

ItemTypes == {"decision", "progress", "system_pattern", "custom_data"}
Vals == {1, 2}
\* The text of a decision or a system pattern is never rewritten after the
\* insert, so one value stands for it.
Texts == {1}
Names == {1, 2}

\* get_database_url_for_workspace / get_vector_db_path_for_workspace: both
\* stores live under <workspace_id>/.novaport_data, one per workspace.
DbPath(w) == w
VectorPath(w) == w

\* cache_key of get_collection: f"{workspace_id}_{collection_name}", with the
\* single collection name "conport_default".
CacheKeyNameOnly(w) == 1
CacheKey(w) == w

\* The stable embedding id f"<type>_<row id>".
EmbeddingId(item_type, id) == <<item_type, id>>

NoRequest == [w |-> 0, item_type |-> "none", id |-> 0]
NoDelete == [seq |-> 0, w |-> 0, item_type |-> "none", id |-> 0]
NoUpsert == 0

InitStore ==
    /\ db = [p \in Workspaces |-> [ty \in ItemTypes |-> {}]]
    /\ vec = [p \in Workspaces |-> {}]
    /\ collections = [k \in Workspaces |-> 0]
    /\ inflight = NoRequest
    /\ created = 0
    /\ last_ws = 0
    /\ faults = 0
    /\ last_delete = NoDelete
    /\ last_upsert = NoUpsert

\* get_collection: the cached collection under the cache key if there is
\* one, else the collection of the workspace's own client, which is cached.
get_collection(cache, w) ==
    IF cache[CacheKey(w)] # 0 THEN cache[CacheKey(w)] ELSE VectorPath(w)
CollectionsAfter(cache, w) ==
    [cache EXCEPT ![CacheKey(w)] = get_collection(cache, w)]

\* collection.upsert(ids=[item_id], ...): one embedding per id.
add_embedding(embeddings, item_id, item_type, text, origin) ==
    embeddings
        \cup {[id |-> item_id, item_type |-> item_type, text |-> text, origin |-> origin]}
upsert_embedding(embeddings, item_id, item_type, text, origin) ==
    {e \in embeddings : e.id # item_id}
        \cup {[id |-> item_id, item_type |-> item_type, text |-> text, origin |-> origin]}

\* collection.delete(ids=[item_id]); a missing id is not an error.
delete_embedding(embeddings, item_id) == {e \in embeddings : e.id # item_id}

NoPattern == [w |-> 0, name |-> 0, raised |-> "none", returned |-> "none"]

\* The requests of the HTTP API on the singleton contexts; each runs in a
\* worker thread with its own session.
Requests == 1..NumRequests
NoSession == [pc |-> "idle", kind |-> "none", model |-> "none", data |-> EmptyDict,
              loaded |-> EmptyDict, before |-> EmptyDict, version |-> 0]

NoFts == [w |-> 0, item_type |-> "none", query |-> 0, fts_ok |-> TRUE,
          raised |-> "none", rows |-> {}]

\* INTEGER PRIMARY KEY of SQLite: one more than the largest id in the table.
NextId(rows) ==
    IF rows = {} THEN 1
    ELSE (CHOOSE i \in {r.id : r \in rows} : \A r \in rows : r.id <= i) + 1

\* db.add(models.<Model>(...)); db.commit(): the table with the new row.
InsertRow(rows, parent, key, val, origin) ==
    rows \cup {[id |-> NextId(rows), parent |-> parent, key |-> key,
                val |-> val, origin |-> origin]}

\* <service>.get(db, id)
get(rows, id) == {r \in rows : r.id = id}

\* <service>.get_multi(db) without filters
get_multi(rows) == rows

\* search_fts(db, query): the rows whose text matches the query term
search_fts(rows, query) == {r \in rows : r.val = query}

\* vector_service.search with the filter {"item_type": {"$in": item_types}}
search(embeddings, item_types) == {e \in embeddings : e.item_type \in item_types}

\* The rows db.delete(row) removes: the row, and for a progress entry its
\* children (relationship cascade "all, delete-orphan"), transitively.
RECURSIVE Cascade(_, _)
Cascade(rows, ids) ==
    LET more == ids \cup {r.id : r \in {c \in rows : c.parent \in ids}}
    IN IF more = ids THEN ids ELSE Cascade(rows, more)

DeletedIdsNoCascade(rows, item_type, id) == {id}
DeletedIds(rows, item_type, id) ==
    IF item_type = "progress" THEN Cascade(rows, {id}) ELSE {id}

\* create of decision_service, progress_service, system_pattern_service and
\* the insert branch of custom_data_service.upsert: add the row, commit,
\* then upsert the embedding "<type>_<id>".
CreateRow(w, item_type, parent, key, val) ==
    LET rows == db[DbPath(w)][item_type]
        id == NextId(rows)
        coll == get_collection(collections, w)
    IN /\ inflight = NoRequest
       /\ created < MaxCreates
       /\ db' = [db EXCEPT ![DbPath(w)][item_type] = InsertRow(rows, parent, key, val, w)]
       /\ collections' = CollectionsAfter(collections, w)
       /\ vec' = [vec EXCEPT ![coll] =
                    upsert_embedding(@, EmbeddingId(item_type, id), item_type, val, w)]
       /\ created' = created + 1
       /\ last_ws' = w
       /\ last_upsert' = NoUpsert
       /\ UNCHANGED <<inflight, faults, last_delete, registryVars, contextVars, toolVars,
        requestVars>>

log_decision(w, val) == CreateRow(w, "decision", 0, 0, val)

log_progress(w, parent_id, val) ==
    /\ parent_id = 0 \/ get(db[DbPath(w)]["progress"], parent_id) # {}
    /\ CreateRow(w, "progress", parent_id, 0, val)

\* The name of a system pattern is unique: a second insert of the same name
\* fails at commit and writes nothing.
log_system_pattern(w, name, val) ==
    /\ \A r \in db[DbPath(w)]["system_pattern"] : r.key # name
    /\ CreateRow(w, "system_pattern", 0, name, val)

\* log_system_pattern with a name that is taken: db.commit() in
\* system_pattern_service.create raises IntegrityError (SystemPattern.name is
\* unique) before the embedding is written.  Neither the service nor the
\* handler has an except clause for it: the handler returns no MCPError, the
\* exception leaves it and the session is closed without a commit.
log_system_pattern_duplicate(w, name, val) ==
    /\ inflight = NoRequest
    /\ \E r \in db[DbPath(w)]["system_pattern"] : r.key = name
    /\ pattern_result' = [w |-> w, name |-> name, raised |-> "IntegrityError",
                          returned |-> "none"]
    /\ last_ws' = w
    /\ last_upsert' = NoUpsert
    /\ UNCHANGED <<db, vec, collections, inflight, created, faults, last_delete,
                   fts_result, sessions, entries, update_result,
                   registryVars, contextVars, toolVars>>

\* custom_data_service.upsert: update the value of the row with this
\* (category, key) or insert it; then upsert the embedding.
log_custom_data(w, key, val) ==
    LET rows == db[DbPath(w)]["custom_data"]
        old == {r \in rows : r.key = key}
        coll == get_collection(collections, w)
    IN IF old = {}
       THEN CreateRow(w, "custom_data", 0, key, val)
       ELSE /\ inflight = NoRequest
            /\ db' = [db EXCEPT ![DbPath(w)]["custom_data"] =
                         (rows \ old) \cup {[r EXCEPT !.val = val] : r \in old}]
            /\ collections' = CollectionsAfter(collections, w)
            /\ vec' = [vec EXCEPT ![coll] =
                         LET r == CHOOSE r \in old : TRUE
                         IN upsert_embedding(@, EmbeddingId("custom_data", r.id),
                                             "custom_data", val, w)]
            /\ last_ws' = w
            /\ last_upsert' = (CHOOSE r \in old : TRUE).val
            /\ UNCHANGED <<inflight, created, faults, last_delete,
                           registryVars, contextVars, toolVars, requestVars>>

\* The update_progress tool: progress_service.update assigns the given
\* fields to the row and commits; it makes no call to the vector store.
update_progress(w, progress_id, val) ==
    LET rows == db[DbPath(w)]["progress"]
        db_entry == get(rows, progress_id)
    IN /\ inflight = NoRequest
       /\ db_entry # {}
       /\ db' = [db EXCEPT ![DbPath(w)]["progress"] =
                    (rows \ db_entry) \cup {[r EXCEPT !.val = val] : r \in db_entry}]
       /\ last_ws' = w
       /\ last_upsert' = NoUpsert
       /\ UNCHANGED <<vec, collections, inflight, created, faults, last_delete,
                      registryVars, contextVars, toolVars, requestVars>>

\* The fallback of decision_service.search_fts:
\* db.query(Decision).filter(Decision.summary.contains(query)).  The texts of
\* the model are single terms, so a text contains the query if it is the query.
summary_contains(rows, query) == {r \in rows : r.val = query}

\* decision_service.search_fts: the MATCH query over decisions_fts; any
\* exception it raises (the virtual table is absent) is caught and the
\* substring query on summary is run instead.
decision_search_fts(rows, query, fts_ok) ==
    IF fts_ok THEN [raised |-> "none", rows |-> search_fts(rows, query)]
    ELSE [raised |-> "none", rows |-> summary_contains(rows, query)]

\* custom_data_service.search_fts: the MATCH query over custom_data_fts, run
\* outside any try block; the OperationalError of db.execute leaves the function.
custom_data_search_fts(rows, query, fts_ok) ==
    IF fts_ok THEN [raised |-> "none", rows |-> search_fts(rows, query)]
    ELSE [raised |-> "OperationalError", rows |-> {}]

\* The search_decisions_fts tool; fts_ok says whether the FTS query succeeds.
search_decisions_fts(w, query_term, fts_ok) ==
    LET found == decision_search_fts(db[DbPath(w)]["decision"], query_term, fts_ok)
    IN /\ inflight = NoRequest
       /\ fts_result' = [w |-> w, item_type |-> "decision", query |-> query_term,
                         fts_ok |-> fts_ok, raised |-> found.raised, rows |-> found.rows]
       /\ UNCHANGED <<pattern_result, sessions, entries, update_result,
                      registryVars, contextVars, storeVars, toolVars>>

\* The search_custom_data_value_fts tool without a category filter.
search_custom_data_value_fts(w, query_term, fts_ok) ==
    LET found == custom_data_search_fts(db[DbPath(w)]["custom_data"], query_term, fts_ok)
    IN /\ inflight = NoRequest
       /\ fts_result' = [w |-> w, item_type |-> "custom_data", query |-> query_term,
                         fts_ok |-> fts_ok, raised |-> found.raised, rows |-> found.rows]
       /\ UNCHANGED <<pattern_result, sessions, entries, update_result,
                      registryVars, contextVars, storeVars, toolVars>>

\* delete of the four services, first half: the row is found and
\* vector_service.delete_embedding is called; an exception of
\* collection.delete is logged as a warning and suppressed.
delete_begin(w, item_type, id, vector_ok) ==
    LET coll == get_collection(collections, w)
    IN /\ inflight = NoRequest
       /\ get(db[DbPath(w)][item_type], id) # {}
       /\ vector_ok \/ faults < MaxFaults
       /\ collections' = CollectionsAfter(collections, w)
       /\ vec' = [vec EXCEPT ![coll] =
                    IF vector_ok THEN delete_embedding(@, EmbeddingId(item_type, id))
                    ELSE @]
       /\ faults' = IF vector_ok THEN faults ELSE faults + 1
       /\ inflight' = [w |-> w, item_type |-> item_type, id |-> id]
       /\ last_ws' = w
       /\ last_upsert' = NoUpsert
       /\ UNCHANGED <<db, created, last_delete, registryVars, contextVars, toolVars, requestVars>>

\* delete where vector_service.get_collection raises: the cached collection
\* fails its count() test and is dropped from the cache, the collection cannot
\* be opened again and get_collection re-raises; delete_embedding calls it
\* outside its try block, so the exception ends the request before db.delete.
delete_collection_error(w, item_type, id) ==
    /\ inflight = NoRequest
    /\ get(db[DbPath(w)][item_type], id) # {}
    /\ faults < MaxFaults
    /\ faults' = faults + 1
    /\ collections' = [collections EXCEPT ![CacheKey(w)] = 0]
    /\ last_ws' = w
    /\ last_upsert' = NoUpsert
    /\ UNCHANGED <<db, vec, inflight, created, last_delete,
                   registryVars, contextVars, toolVars, requestVars>>

\* delete, second half: db.delete(row); db.commit(); the request reports
\* success.
delete_commit ==
    /\ inflight # NoRequest
    /\ db' = [db EXCEPT ![DbPath(inflight.w)][inflight.item_type] =
                 {r \in @ : r.id \notin DeletedIds(@, inflight.item_type, inflight.id)}]
    /\ last_delete' = [seq |-> last_delete.seq + 1, w |-> inflight.w,
                       item_type |-> inflight.item_type, id |-> inflight.id]
    /\ inflight' = NoRequest
    /\ last_upsert' = NoUpsert
    /\ UNCHANGED <<vec, collections, created, last_ws, faults,
                   registryVars, contextVars, toolVars, requestVars>>

\* delete, second half failing: db.commit() raises (the database is locked)
\* or the process stops; the row stays, the request does not succeed.
delete_abort ==
    /\ inflight # NoRequest
    /\ faults < MaxFaults
    /\ faults' = faults + 1
    /\ inflight' = NoRequest
    /\ last_upsert' = NoUpsert
    /\ UNCHANGED <<db, vec, collections, created, last_ws, last_delete,
                   registryVars, contextVars, toolVars, requestVars>>

\* =====================================================================
\* Tools built on the services: conport/services/meta_service.py,
\* novaport_mcp/main.py
\* =====================================================================

\* The item dictionaries of a batch: val = 0 stands for an item that lacks a
\* required field of its schema (summary, status, name, value).
ItemData == [key : Names, val : Vals \cup {0}]
Batches == UNION {[1..n -> ItemData] : n \in 0..MaxItems}

NoBatch == [status |-> "none", n |-> 0, succeeded |-> 0, failed |-> 0, details |-> <<>>]

Tags == {"db", "pg", "frontend"}
NoSearch == [filter_item_types |-> {}, filter_tags_include_any |-> {}, ids |-> {}]

\* The items a link can name: (item_type, item_id) pairs.
ItemRefs == {<<"decision", 1>>, <<"progress", 2>>, <<"progress", 1>>}
NoLinksResult == [status |-> "none", item |-> <<"none", 0>>, limit |-> 0, rows |-> {}]

\* The item types get_recent_activity reports.
ActivityTypes == {"decision", "progress", "system_pattern"}
NoActivity == [status |-> "none", since |-> 0, decisions |-> {}, progress |-> {},
               system_patterns |-> {}]

\* Summaries and rationales of the decisions that are exported; None is the
\* absent rationale.
Summaries == {"A", "B", "C"}
None == "None"
Rationales == {None, "r"}
NoFile == <<"no file">>
NoImport == [status |-> "none", rows |-> <<>>]

InitTools ==
    /\ batch_result = NoBatch
    /\ decisions = <<>>
    /\ decision_index = {}
    /\ search_results = NoSearch
    /\ links = {}
    /\ links_result = NoLinksResult
    /\ clock = 1
    /\ stamped = {}
    /\ activity_result = NoActivity
    /\ io_decisions = <<>>
    /\ io_file = NoFile
    /\ io_imported = NoImport

\* schema(**item_data): raises ValidationError when a required field is missing.
Validates(item_data) == item_data.val # 0

\* One pass of the loop of meta_service.batch_log_items.  A ValidationError
\* (or TypeError) is caught and recorded; the service call commits the row and
\* upserts its embedding; the IntegrityError of a duplicate system pattern name
\* is not among the caught exceptions and leaves the loop.
batch_item(st, w, item_type, item_data) ==
    IF ~Validates(item_data)
    THEN [st EXCEPT !.errors = Append(@, [item |-> item_data, error |-> "ValidationError"])]
    ELSE IF item_type = "system_pattern" /\ \E r \in st.rows : r.key = item_data.key
    THEN [st EXCEPT !.raised = TRUE]
    ELSE LET key == IF item_type \in {"system_pattern", "custom_data"}
                    THEN item_data.key ELSE 0
             old == IF item_type = "custom_data"
                    THEN {r \in st.rows : r.key = key} ELSE {}
             rows == IF old = {}
                     THEN InsertRow(st.rows, 0, key, item_data.val, w)
                     ELSE (st.rows \ old) \cup {[r EXCEPT !.val = item_data.val] : r \in old}
             id == IF old = {} THEN NextId(st.rows) ELSE (CHOOSE r \in old : TRUE).id
         IN [st EXCEPT !.rows = rows,
                       !.embeddings = upsert_embedding(@, EmbeddingId(item_type, id),
                                                       item_type, item_data.val, w),
                       !.success_count = @ + 1]

RECURSIVE batch_loop(_, _, _, _)
batch_loop(st, w, item_type, items) ==
    IF items = <<>> \/ st.raised THEN st
    ELSE batch_loop(batch_item(st, w, item_type, Head(items)), w, item_type, Tail(items))

\* The batch_log_items tool: meta_service.batch_log_items inside the handler,
\* which catches ValidationError only; any other exception leaves the tool.
batch_log_items(w, item_type, items) ==
    LET coll == get_collection(collections, w)
        st0 == [rows |-> db[DbPath(w)][item_type], embeddings |-> vec[coll],
                success_count |-> 0, errors |-> <<>>, raised |-> FALSE]
        st == batch_loop(st0, w, item_type, items)
    IN /\ inflight = NoRequest
       /\ created + Len(items) <= MaxCreates
       /\ db' = [db EXCEPT ![DbPath(w)][item_type] = st.rows]
       /\ vec' = [vec EXCEPT ![coll] = st.embeddings]
       /\ collections' = IF st.success_count > 0 THEN CollectionsAfter(collections, w)
                         ELSE collections
       /\ created' = created + Cardinality(st.rows) - Cardinality(st0.rows)
       /\ last_ws' = w
       /\ batch_result' =
             IF st.raised
             THEN [status |-> "exception", n |-> Len(items), succeeded |-> 0,
                   failed |-> 0, details |-> <<>>]
             ELSE [status |-> "result", n |-> Len(items), succeeded |-> st.success_count,
                   failed |-> Len(st.errors), details |-> st.errors]
       /\ last_upsert' = NoUpsert
       /\ UNCHANGED <<inflight, faults, last_delete, registryVars, contextVars,
                      decisions, decision_index, search_results, links, links_result,
                      clock, stamped, activity_result,
                      io_decisions, io_file, io_imported, requestVars>>

\* Metadata values carry their Python type: a str or a list.
Str(v) == [type |-> "str", v |-> v]
List(v) == [type |-> "list", v |-> v]

\* safe_metadata of upsert_embedding: only the entries whose value is a str,
\* int, float or bool are kept.
safe_metadata(metadata) ==
    [k \in {j \in DOMAIN metadata : metadata[j].type = "str"} |-> metadata[k]]

\* The log_decision tool with tags: decision_service.create commits the row
\* and upserts the embedding "decision_<id>" with the metadata
\* {item_type, summary, tags}, tags being the list of the row.
log_decision_tags(summary, tags) ==
    LET id == Len(decisions) + 1
        metadata == [item_type |-> Str("decision"), summary |-> Str(summary),
                     tags |-> List(tags)]
    IN /\ Len(decisions) < MaxDecisions
       /\ decisions' = Append(decisions, [id |-> id, summary |-> summary, tags |-> tags])
       /\ decision_index' = {e \in decision_index : e.id # EmbeddingId("decision", id)}
             \cup {[id |-> EmbeddingId("decision", id), metadata |-> safe_metadata(metadata)]}
       /\ UNCHANGED <<batch_result, search_results, links, links_result,
                      clock, stamped, activity_result, registryVars, contextVars, storeVars,
                   io_decisions, io_file, io_imported, requestVars>>

\* A `where` condition of the collection query on one metadata key: an entry
\* without the key does not match.
WhereIn(metadata, key, values) ==
    key \in DOMAIN metadata /\ metadata[key].type = "str" /\ metadata[key].v \in values
WhereContains(metadata, key, value) ==
    key \in DOMAIN metadata /\ metadata[key].type = "list" /\ value \in metadata[key].v

\* The filters built by semantic_search_conport:
\* {"$and": [{"item_type": {"$in": types}}, {"$or": [{"tags": {"$contains": t}} ...]}]}
Filters(metadata, filter_item_types, filter_tags_include_any) ==
    /\ filter_item_types # {} => WhereIn(metadata, "item_type", filter_item_types)
    /\ filter_tags_include_any # {} =>
          \E tag \in filter_tags_include_any : WhereContains(metadata, "tags", tag)

\* The ids semantic_search_conport returns: the raw result of
\* vector_service.search with these filters.
SemanticSearchIds(index, filter_item_types, filter_tags_include_any) ==
    {e.id : e \in {x \in index :
                      Filters(x.metadata, filter_item_types, filter_tags_include_any)}}

semantic_search_conport(filter_item_types, filter_tags_include_any) ==
    /\ search_results' =
          [filter_item_types |-> filter_item_types,
           filter_tags_include_any |-> filter_tags_include_any,
           ids |-> SemanticSearchIds(decision_index, filter_item_types,
                                     filter_tags_include_any)]
    /\ UNCHANGED <<batch_result, decisions, decision_index, links, links_result,
                   clock, stamped, activity_result, registryVars, contextVars, storeVars,
                   io_decisions, io_file, io_imported, requestVars>>

\* The link_conport_items tool: link_service.create adds one row.
link_conport_items(source, target) ==
    /\ Cardinality(links) < MaxLinks
    /\ links' = links \cup {[id |-> Cardinality(links) + 1, source |-> source,
                              target |-> target]}
    /\ UNCHANGED <<batch_result, decisions, decision_index, search_results, links_result,
                   clock, stamped, activity_result, registryVars, contextVars, storeVars,
                   io_decisions, io_file, io_imported, requestVars>>

\* link_service.get_for_item(db, item_type, item_id): its parameters, and the
\* rows in which the pair is the source or the target (no limit is applied).
get_for_item_parameters == {"db", "item_type", "item_id"}
get_for_item(rows, item) == {l \in rows : l.source = item \/ l.target = item}

\* The get_linked_items tool calls
\* link_service.get_for_item(db, item_type, item_id, limit=limit or 50): a
\* keyword the function does not have makes the call raise TypeError.
get_linked_items(item, limit) ==
    LET arguments == {"db", "item_type", "item_id", "limit"}
    IN /\ links_result' =
             IF arguments \subseteq get_for_item_parameters
             THEN [status |-> "result", item |-> item, limit |-> limit,
                   rows |-> get_for_item(links, item)]
             ELSE [status |-> "TypeError", item |-> item, limit |-> limit, rows |-> {}]
       /\ UNCHANGED <<batch_result, decisions, decision_index, search_results, links,
                      clock, stamped, activity_result, registryVars, contextVars, storeVars,
                   io_decisions, io_file, io_imported, requestVars>>

\* Time passes.
tick ==
    /\ clock < MaxClock
    /\ clock' = clock + 1
    /\ UNCHANGED <<batch_result, decisions, decision_index, search_results, links,
                   links_result, stamped, activity_result,
                   registryVars, contextVars, storeVars,
                   io_decisions, io_file, io_imported, requestVars>>

\* A decision, progress entry or system pattern is logged: the row takes
\* timestamp = datetime.datetime.utcnow() (the column default).
log_item(item_type) ==
    /\ Cardinality(stamped) < MaxStamped
    /\ stamped' = stamped \cup {[item_type |-> item_type, id |-> Cardinality(stamped) + 1,
                                  timestamp |-> clock]}
    /\ UNCHANGED <<batch_result, decisions, decision_index, search_results, links,
                   links_result, clock, activity_result,
                   registryVars, contextVars, storeVars,
                   io_decisions, io_file, io_imported, requestVars>>

\* The keyword parameters of the three get_multi functions.
get_multi_parameters(item_type) ==
    IF item_type = "decision"
    THEN {"db", "skip", "limit", "tags_all", "tags_any", "since"}
    ELSE IF item_type = "progress"
    THEN {"db", "skip", "limit", "status", "parent_id", "since"}
    ELSE {"db", "skip", "limit", "tags_all", "tags_any"}

\* <service>.get_multi(db, limit=limit, since=since) as called by
\* meta_service.get_recent_activity: `if since:` adds timestamp >= since.
get_multi_since(rows, item_type, since) ==
    {r \in rows : r.item_type = item_type /\ (since # 0 => r.timestamp >= since)}

\* The get_recent_activity_summary tool with since_timestamp (0 = not given):
\* meta_service.get_recent_activity calls the three get_multi functions with
\* the keywords limit and since; a keyword a function does not have makes
\* the call raise TypeError.
get_recent_activity_summary(since) ==
    LET arguments == {"db", "limit", "since"}
        accepted == \A ty \in ActivityTypes : arguments \subseteq get_multi_parameters(ty)
    IN /\ activity_result' =
             IF accepted
             THEN [status |-> "result", since |-> since,
                   decisions |-> get_multi_since(stamped, "decision", since),
                   progress |-> get_multi_since(stamped, "progress", since),
                   system_patterns |-> get_multi_since(stamped, "system_pattern", since)]
             ELSE [status |-> "TypeError", since |-> since, decisions |-> {},
                   progress |-> {}, system_patterns |-> {}]
       /\ UNCHANGED <<batch_result, decisions, decision_index, search_results, links,
                      links_result, clock, stamped,
                      registryVars, contextVars, storeVars,
                   io_decisions, io_file, io_imported, requestVars>>

\* A decision is logged in the workspace that is exported later.
log_decision_io(summary, rationale) ==
    /\ io_file = NoFile
    /\ Len(io_decisions) < MaxDecisions
    /\ io_decisions' = Append(io_decisions, [summary |-> summary, rationale |-> rationale])
    /\ UNCHANGED <<batch_result, decisions, decision_index, search_results, links,
                   links_result, clock, stamped, activity_result, io_file, io_imported,
                   registryVars, contextVars, storeVars, requestVars>>

\* The text export_to_markdown writes for one decision, as a sequence of
\* pieces of text: the heading, the timestamp, the rationale if there is one,
\* and the line "---".
RECURSIVE ExportBlocks(_)
ExportBlocks(rows) ==
    IF rows = <<>> THEN <<>>
    ELSE LET d == Head(rows)
         IN <<"## ", d.summary, "\n\n", "**Timestamp:** ", "t", "\n\n">>
            \o (IF d.rationale # None
                THEN <<"**Rationale:**", "\n", d.rationale, "\n\n">> ELSE <<>>)
            \o <<"---", "\n">>
            \o ExportBlocks(Tail(rows))

\* The content of decisions.md: the title line, then the blocks.
ExportText(rows) == <<"# Decision Log", "\n\n">> \o ExportBlocks(rows)

\* content.split('---')
RECURSIVE Split(_, _)
Split(content, block) ==
    IF content = <<>> THEN <<block>>
    ELSE IF Head(content) = "---" THEN <<block>> \o Split(Tail(content), <<>>)
    ELSE Split(Tail(content), Append(block, Head(content)))

Whitespace == {"\n", "\n\n"}
\* block.strip() is empty
IsBlank(block) == \A i \in 1..Len(block) : block[i] \in Whitespace
\* block.startswith("##")
StartsWithHeading(block) == block # <<>> /\ Head(block) = "## "

\* The piece of text that follows the first occurrence of a marker, None if
\* the marker does not occur.
After(block, marker, skip) ==
    LET at == {i \in 1..Len(block) : block[i] = marker}
    IN IF at = {} THEN None
       ELSE block[(CHOOSE i \in at : \A j \in at : i <= j) + skip]

\* The loop of import_from_markdown over the blocks: a block that is blank or
\* does not start with "##" is skipped, else summary and rationale are read.
RECURSIVE ImportBlocks(_)
ImportBlocks(decision_blocks) ==
    IF decision_blocks = <<>> THEN <<>>
    ELSE LET block == Head(decision_blocks)
         IN (IF IsBlank(block) \/ ~StartsWithHeading(block) THEN <<>>
             ELSE <<[summary |-> After(block, "## ", 1),
                     rationale |-> After(block, "**Rationale:**", 2)]>>)
            \o ImportBlocks(Tail(decision_blocks))

\* The export_conport_to_markdown tool: decisions.md is written only when the
\* workspace has decisions.
export_to_markdown ==
    /\ io_file' = IF io_decisions # <<>> THEN ExportText(io_decisions) ELSE NoFile
    /\ UNCHANGED <<batch_result, decisions, decision_index, search_results, links,
                   links_result, clock, stamped, activity_result, io_decisions, io_imported,
                   registryVars, contextVars, storeVars, requestVars>>

\* The import_markdown_to_conport tool on an empty workspace.
import_from_markdown ==
    /\ io_imported = NoImport
    /\ io_imported' =
          IF io_file = NoFile THEN [status |-> "failed", rows |-> <<>>]
          ELSE [status |-> "completed", rows |-> ImportBlocks(Split(io_file, <<>>))]
    /\ UNCHANGED <<batch_result, decisions, decision_index, search_results, links,
                   links_result, clock, stamped, activity_result, io_decisions, io_file,
                   registryVars, contextVars, storeVars, requestVars>>

\* =====================================================================
\* update_progress with the columns of a progress entry:
\* novaport_mcp/main.py, conport/schemas/progress.py,
\* conport/services/progress_service.py
\* =====================================================================

Statuses == {"TODO", "DONE"}
Descriptions == {"d1", "d2"}
\* parent_id: the id of an entry, or 0 for None (NULL).
NoParent == 0
ProgressFields == {"status", "description", "parent_id"}
NoUpdateResult == [outcome |-> "none", progress_id |-> 0,
                   args |-> [status |-> None, description |-> None, parent_id |-> NoParent],
                   before |-> <<>>, after |-> <<>>]

\* log_progress: ProgressEntryCreate requires status and description.
log_progress_entry(status, description, parent_id) ==
    /\ Len(entries) < MaxEntries
    /\ parent_id = NoParent \/ parent_id \in 1..Len(entries)
    /\ entries' = Append(entries, [status |-> status, description |-> description,
                                   parent_id |-> parent_id])
    /\ UNCHANGED <<update_result, pattern_result, fts_result, sessions,
                   registryVars, contextVars, storeVars, toolVars>>

\* model_fields_set of ProgressEntryUpdate(status=status,
\* description=description, parent_id=parent_id): every field passed to the
\* constructor counts as set, whatever its value.
model_fields_set(kwargs) == DOMAIN kwargs

\* update_data.model_dump(exclude_unset=True): the fields that are set.
model_dump_exclude_unset(update_data) ==
    [f \in model_fields_set(update_data) |-> update_data[f]]

\* The loop of progress_service.update: setattr(db_entry, key, value).
setattrs(db_entry, update_dict) ==
    [f \in ProgressFields |-> IF f \in DOMAIN update_dict THEN update_dict[f]
                              ELSE db_entry[f]]

\* status and description are declared nullable=False.
NotNull(row) == row.status # None /\ row.description # None

\* The update_progress tool.  The handler passes its three parameters to
\* ProgressEntryUpdate and returns the error if the dump is empty; the
\* service assigns every dumped field to the row and commits, and the commit
\* raises IntegrityError if a NOT NULL column was assigned None.
update_progress_fields(progress_id, status, description, parent_id) ==
    LET update_data == [status |-> status, description |-> description,
                        parent_id |-> parent_id]
        update_dict == model_dump_exclude_unset(update_data)
        found == progress_id \in 1..Len(entries)
        db_entry == entries[progress_id]
        assigned == setattrs(db_entry, update_dict)
        outcome == IF DOMAIN update_dict = {} THEN "No update fields provided."
                   ELSE IF ~found THEN "Progress entry not found"
                   ELSE IF ~NotNull(assigned) THEN "IntegrityError"
                   ELSE "updated"
    IN /\ parent_id = NoParent \/ parent_id \in 1..Len(entries)
       /\ entries' = IF outcome = "updated"
                     THEN [entries EXCEPT ![progress_id] = assigned] ELSE entries
       /\ update_result' = [outcome |-> outcome, progress_id |-> progress_id,
                            args |-> update_data,
                            before |-> IF found THEN <<db_entry>> ELSE <<>>,
                            after |-> IF found THEN <<entries'[progress_id]>> ELSE <<>>]
       /\ UNCHANGED <<pattern_result, fts_result, sessions,
                      registryVars, contextVars, storeVars, toolVars>>

InitRequests ==
    /\ pattern_result = NoPattern
    /\ fts_result = NoFts
    /\ sessions = [r \in Requests |-> NoSession]
    /\ entries = <<>>
    /\ update_result = NoUpdateResult

\* =====================================================================
\* Specifications
\* =====================================================================

Init == InitRegistry /\ InitContext /\ InitStore /\ InitTools /\ InitRequests

Next ==
    \/ \E t \in Tasks, w \in Workspaces : get_session_local(t, w)
    \/ \E t \in Tasks : lock_acquired(t)
    \/ \E t \in Tasks : run_migrations_begin(t)
    \/ \E t \in Tasks : run_migrations_step(t)
    \/ \E t \in Tasks : run_migrations_commit(t)
    \/ \E t \in Tasks : run_migrations_fail(t)
    \/ \E t \in Tasks : to_thread_return(t)
    \/ \E t \in Tasks : cancel(t)

Spec == Init /\ [][Next]_vars

\* The registry with its scheduling: a worker thread started by
\* asyncio.to_thread runs until the migration returns or raises, the event
\* loop resumes a task whose awaited thread has finished, and a released
\* asyncio.Lock wakes its first waiter.  Cancellation is up to the client.
Fairness ==
    \A t \in Tasks :
        /\ WF_vars(run_migrations_begin(t) \/ run_migrations_step(t)
                      \/ run_migrations_commit(t) \/ run_migrations_fail(t))
        /\ WF_vars(to_thread_return(t))
        /\ WF_vars(lock_acquired(t))

SpecFair == Init /\ [][Next]_vars /\ Fairness

NextContext ==
    \/ \E m \in ContextModels : get_context(m)
    \/ \E m \in ContextModels, u \in ContextUpdates : update_context(m, u)

SpecContext == Init /\ [][NextContext]_vars

NextStore ==
    \/ \E w \in Workspaces, v \in Texts : log_decision(w, v)
    \/ \E w \in Workspaces, p \in 0..MaxCreates, v \in Vals : log_progress(w, p, v)
    \/ \E w \in Workspaces, n \in Names, v \in Texts : log_system_pattern(w, n, v)
    \/ \E w \in Workspaces, k \in Names, v \in Vals : log_custom_data(w, k, v)
    \/ \E w \in Workspaces, ty \in ItemTypes, i \in 1..MaxCreates, ok \in BOOLEAN :
          delete_begin(w, ty, i, ok)
    \/ delete_commit
    \/ delete_abort

SpecStore == Init /\ [][NextStore]_vars

\* The custom data tools: log_custom_data and delete_custom_data.
NextCustomData ==
    \/ \E w \in Workspaces, k \in Names, v \in Vals : log_custom_data(w, k, v)
    \/ \E w \in Workspaces, i \in 1..MaxCreates, ok \in BOOLEAN :
          delete_begin(w, "custom_data", i, ok)
    \/ delete_commit
    \/ delete_abort

SpecCustomData == Init /\ [][NextCustomData]_vars

\* The progress tools: log_progress, update_progress, delete_progress_by_id.
NextProgress ==
    \/ \E w \in Workspaces, p \in 0..MaxCreates, v \in Vals : log_progress(w, p, v)
    \/ \E w \in Workspaces, i \in 1..MaxCreates, v \in Vals : update_progress(w, i, v)
    \/ \E w \in Workspaces, i \in 1..MaxCreates, ok \in BOOLEAN :
          delete_begin(w, "progress", i, ok)
    \/ delete_commit
    \/ delete_abort

SpecProgress == Init /\ [][NextProgress]_vars

\* The delete tools with every failure of the vector store.
NextDelete ==
    \/ \E w \in Workspaces, v \in Texts : log_decision(w, v)
    \/ \E w \in Workspaces, n \in Names, v \in Texts : log_system_pattern(w, n, v)
    \/ \E w \in Workspaces, ty \in ItemTypes, i \in 1..MaxCreates, ok \in BOOLEAN :
          delete_begin(w, ty, i, ok)
    \/ \E w \in Workspaces, ty \in ItemTypes, i \in 1..MaxCreates :
          delete_collection_error(w, ty, i)
    \/ delete_commit
    \/ delete_abort

SpecDelete == Init /\ [][NextDelete]_vars

\* log_system_pattern and delete_system_pattern_by_id.
NextPattern ==
    \/ \E w \in Workspaces, n \in Names, v \in Vals : log_system_pattern(w, n, v)
    \/ \E w \in Workspaces, n \in Names, v \in Vals : log_system_pattern_duplicate(w, n, v)
    \/ \E w \in Workspaces, i \in 1..MaxCreates :
          delete_begin(w, "system_pattern", i, TRUE)
    \/ delete_commit
    \/ delete_abort

SpecPattern == Init /\ [][NextPattern]_vars

\* The full-text search tools over the rows logged so far.
NextFts ==
    \/ \E w \in Workspaces, v \in Vals : log_decision(w, v)
    \/ \E w \in Workspaces, k \in Names, v \in Vals : log_custom_data(w, k, v)
    \/ \E w \in Workspaces, q \in Vals, ok \in BOOLEAN : search_decisions_fts(w, q, ok)
    \/ \E w \in Workspaces, q \in Vals, ok \in BOOLEAN :
          search_custom_data_value_fts(w, q, ok)

SpecFts == Init /\ [][NextFts]_vars

\* Requests of the HTTP API on the contexts, each in its own thread and
\* session: reads and patch_content updates that assign keys.
NextSessions ==
    \/ \E r \in Requests, m \in ContextModels : request_query(r, m, "read", EmptyDict)
    \/ \E r \in Requests, m \in ContextModels, d \in Dicts \ {EmptyDict} :
          request_query(r, m, "patch_content", d)
    \/ \E r \in Requests : create_commit(r)
    \/ \E r \in Requests : update_commit(r)

SpecSessions == Init /\ [][NextSessions]_vars

\* log_progress and update_progress on the columns of progress_entries.
NextUpdate ==
    \/ \E st \in Statuses, d \in Descriptions, p \in 0..MaxEntries :
          log_progress_entry(st, d, p)
    \/ \E i \in 1..MaxEntries, st \in Statuses \cup {None},
          d \in Descriptions \cup {None}, p \in 0..MaxEntries :
          update_progress_fields(i, st, d, p)

SpecUpdate == Init /\ [][NextUpdate]_vars

NextBatch ==
    \/ \E w \in Workspaces, ty \in ItemTypes, items \in Batches : batch_log_items(w, ty, items)
    \/ \E w \in Workspaces, n \in Names, v \in Texts : log_system_pattern(w, n, v)

SpecBatch == Init /\ [][NextBatch]_vars

NextSearch ==
    \/ \E v \in Vals, tags \in SUBSET Tags : log_decision_tags(v, tags)
    \/ \E types \in {{}, {"decision"}, {"progress"}}, tags \in SUBSET Tags :
          semantic_search_conport(types, tags)

SpecSearch == Init /\ [][NextSearch]_vars

NextLinks ==
    \/ \E source \in ItemRefs, target \in ItemRefs : link_conport_items(source, target)
    \/ \E item \in ItemRefs, limit \in 1..MaxLinks : get_linked_items(item, limit)

SpecLinks == Init /\ [][NextLinks]_vars

NextActivity ==
    \/ tick
    \/ \E ty \in ActivityTypes : log_item(ty)
    \/ \E since \in 0..MaxClock : get_recent_activity_summary(since)

SpecActivity == Init /\ [][NextActivity]_vars

NextIO ==
    \/ \E summary \in Summaries, rationale \in Rationales : log_decision_io(summary, rationale)
    \/ export_to_markdown
    \/ import_from_markdown

SpecIO == Init /\ [][NextIO]_vars

\* =====================================================================
\* Properties
\* =====================================================================

\* C1: when several tasks call get_session_local for the same workspace that
\* is not initialized yet, one initialization is performed (a further one is
\* started only after one failed or was cancelled) and every caller that
\* returns receives the one cached session factory.
C1_SingleInitialization ==
    \A w \in Workspaces :
        /\ inits[w] <= aborted[w] + 1
        /\ \A t \in Tasks :
              (pc[t] = "returned" /\ ws[t] = w) =>
                  /\ result[t] # 0
                  /\ result[t] = session_locals[w]
                  /\ inits[w] = aborted[w] + 1

C1_Witness ==
    \E w \in Workspaces :
        /\ inits[w] = 1
        /\ aborted[w] = 0
        /\ \A t \in Tasks : pc[t] = "returned" /\ ws[t] = w /\ result[t] = session_locals[w]

\* The largest version among the rows of a history table, 0 if it is empty.
MaxVersionOf(rows) ==
    IF rows = <<>> THEN 0
    ELSE CHOOSE v \in {rows[i].version : i \in 1..Len(rows)} :
            \A i \in 1..Len(rows) : rows[i].version <= v

\* C2: every update of a singleton context that changes its content adds
\* exactly one history row for that context; the row's version is the
\* previous maximum + 1 (1 if there was none) and its content is the content
\* held before the update; the rows already there are left as they were.
C2_HistoryOnChange ==
    [][\A m \in ContextModels :
          context'[m].content # context[m].content =>
              /\ Len(history'[m]) = Len(history[m]) + 1
              /\ SubSeq(history'[m], 1, Len(history[m])) = history[m]
              /\ history'[m][Len(history'[m])].version = MaxVersionOf(history[m]) + 1
              /\ history'[m][Len(history'[m])].content = context[m].content]_vars

C2_Witness ==
    \E m \in ContextModels :
        /\ Len(history[m]) = 2
        /\ history[m][1].version = 1
        /\ history[m][1].content = EmptyDict
        /\ history[m][2].version = 2
        /\ history[m][2].content # EmptyDict
        /\ context[m].content # history[m][2].content

\* C3: whenever no request is in progress (and no store failure was ever
\* injected), for every row of an indexed type there is exactly one embedding
\* with id "<type>_<row id>" and every embedding belongs to an existing row.
C3_StoresAgree ==
    (inflight = NoRequest /\ faults = 0) =>
        \A w \in Workspaces, ty \in ItemTypes :
            /\ \A r \in db[DbPath(w)][ty] :
                  Cardinality({e \in vec[VectorPath(w)] : e.id = EmbeddingId(ty, r.id)}) = 1
            /\ \A e \in vec[VectorPath(w)] :
                  e.item_type = ty =>
                      \E r \in db[DbPath(w)][ty] : EmbeddingId(ty, r.id) = e.id

\* C4: a delete that fails between its two writes leaves at worst an
\* embedding without a row: whenever no request is in progress, every
\* relational row of an indexed type still has its embedding.
C4_RowKeepsEmbedding ==
    inflight = NoRequest =>
        \A w \in Workspaces, ty \in ItemTypes :
            \A r \in db[DbPath(w)][ty] :
                \E e \in vec[VectorPath(w)] : e.id = EmbeddingId(ty, r.id)

\* C5: right after a delete by id reported success, get by that id finds no
\* row and a semantic search filtered to the item's type does not return
\* the deleted item's embedding id.
C5_DeletedIsGone ==
    [][last_delete'.seq # last_delete.seq =>
          /\ get(db'[DbPath(last_delete'.w)][last_delete'.item_type], last_delete'.id) = {}
          /\ \A e \in search(vec'[get_collection(collections', last_delete'.w)],
                             {last_delete'.item_type}) :
                e.id # EmbeddingId(last_delete'.item_type, last_delete'.id)]_vars

\* C6: an update of a singleton context that leaves the content equal adds no
\* history row, and repeating the patch_content of the previous update on
\* the same context changes neither the content nor the history.
C6_NoChangeNoHistory ==
    [][last_update'.seq # last_update.seq =>
          /\ context'[last_update'.model].content = context[last_update'.model].content
                => history' = history
          /\ ( /\ last_update.seq > 0
               /\ last_update'.model = last_update.model
               /\ last_update.kind = "patch_content"
               /\ last_update'.kind = "patch_content"
               /\ last_update'.data = last_update.data )
                => /\ history' = history
                   /\ context'[last_update'.model].content
                         = context[last_update'.model].content]_vars

C6_Witness ==
    /\ last_update.seq = 2
    /\ last_update.kind = "patch_content"
    /\ DOMAIN last_update.data # {}
    /\ ~last_update.changed
    /\ context[last_update.model].content # EmptyDict
    /\ Len(history[last_update.model]) = 1

\* C7: when the initialization of a workspace fails, the caller gets the
\* internal-error status, neither an engine nor a session factory of that
\* workspace is cached and its lock is free, so the next acquire starts a
\* fresh initialization.
C7_FailureLeavesNoCache ==
    [][\A t \in Tasks :
          (pc[t] # "raised" /\ pc'[t] = "raised") =>
              /\ error'[t] = HTTP_500_INTERNAL_SERVER_ERROR
              /\ session_locals'[ws'[t]] = 0
              /\ engines'[ws'[t]] = 0
              /\ lock_holder'[LockKey(ws'[t])] = 0]_vars

C7_Witness ==
    \E t1 \in Tasks, t2 \in Tasks :
        /\ ws[t1] = ws[t2]
        /\ pc[t1] = "raised"
        /\ thread[t1].st = "err"
        /\ pc[t2] = "returned"
        /\ thread[t2].st = "ok"
        /\ result[t2] = t2
        /\ session_locals[ws[t2]] = t2

C9_LockPerWorkspace ==
    /\ \A w \in Workspaces :
          lock_holder[LockKey(w)] # 0 =>
              /\ pc[lock_holder[LockKey(w)]] = "migrating"
              /\ ws[lock_holder[LockKey(w)]] = w
    /\ \A t \in Tasks :
          pc[t] = "waiting" =>
              \/ /\ lock_holder[LockKey(ws[t])] # 0
                 /\ ws[lock_holder[LockKey(ws[t])]] = ws[t]
              \/ /\ lock_holder[LockKey(ws[t])] = 0
                 /\ lock_waiters[LockKey(ws[t])] # <<>>
                 /\ ws[Head(lock_waiters[LockKey(ws[t])])] = ws[t]

C9_Witness ==
    \E t1 \in Tasks, t2 \in Tasks :
        /\ ws[t1] # ws[t2]
        /\ pc[t1] = "migrating" /\ thread[t1].st = "in_txn"
        /\ pc[t2] = "migrating" /\ thread[t2].st = "in_txn"
        /\ lock_holder[LockKey(ws[t1])] = t1
        /\ lock_holder[LockKey(ws[t2])] = t2

\* C10: every row and every embedding a query on workspace w can return was
\* written by a request addressed to w, and a request changes the stored
\* state of no workspace other than the one it addresses.
C10_WorkspaceIsolation ==
    [][ /\ \A w \in Workspaces :
              /\ \A ty \in ItemTypes :
                    /\ \A r \in get_multi(db'[DbPath(w)][ty]) : r.origin = w
                    /\ \A i \in 1..MaxCreates :
                          \A r \in get(db'[DbPath(w)][ty], i) : r.origin = w
                    /\ \A q \in Vals :
                          \A r \in search_fts(db'[DbPath(w)][ty], q) : r.origin = w
              /\ \A e \in search(vec'[get_collection(collections', w)], ItemTypes) :
                    e.origin = w
        /\ \A w \in Workspaces :
              w # last_ws' =>
                  /\ db'[DbPath(w)] = db[DbPath(w)]
                  /\ vec'[VectorPath(w)] = vec[VectorPath(w)] ]_vars

C10_Witness ==
    \E w1 \in Workspaces, w2 \in Workspaces :
        /\ w1 # w2
        /\ db[DbPath(w1)]["decision"] # {}
        /\ db[DbPath(w2)]["decision"] # {}
        /\ search(vec[get_collection(collections, w1)], {"decision"}) # {}
        /\ search(vec[get_collection(collections, w2)], {"decision"}) # {}

\* C11: after log_custom_data(category, key, v), in particular after a second
\* call for the same (category, key), the workspace holds exactly one row for
\* (category, key), get_custom_data returns v, and there is exactly one
\* embedding "custom_data_<row id>", built from v.
C11_UpsertKeepsOne ==
    [][\A w \in Workspaces, k \in Names, v \in Vals :
          log_custom_data(w, k, v) =>
              LET rows == {r \in db'[DbPath(w)]["custom_data"] : r.key = k}
              IN /\ Cardinality(rows) = 1
                 /\ \A r \in rows :
                       /\ r.val = v
                       /\ LET es == {e \in vec'[get_collection(collections', w)] :
                                        e.id = EmbeddingId("custom_data", r.id)}
                          IN /\ Cardinality(es) = 1
                             /\ \A e \in es : e.text = v]_vars

C11_Witness ==
    /\ created = 1
    /\ last_upsert = 1
    /\ \E w \in Workspaces :
          \E r \in db[DbPath(w)]["custom_data"] :
              /\ r.val = 2
              /\ \E e \in vec[VectorPath(w)] :
                    e.id = EmbeddingId("custom_data", r.id) /\ e.text = 2

\* C12: every batch_log_items call with a valid item_type processes all its
\* items: it returns counts with succeeded + failed = number of items, and
\* details holds, in order, exactly one entry for each item that failed.
C12_BatchProcessesEveryItem ==
    [][\A w \in Workspaces, ty \in ItemTypes, items \in Batches :
          batch_log_items(w, ty, items) =>
              /\ batch_result'.status = "result"
              /\ batch_result'.succeeded + batch_result'.failed = Len(items)
              /\ Len(batch_result'.details) = batch_result'.failed]_vars

\* C13: batch_log_items with a valid item_type never ends in an exception or
\* an error envelope: it always returns the {succeeded, failed, details} result.
C13_BatchEnvelopeSucceeds ==
    batch_result.status \in {"none", "result"}

\* C14: after an update_progress that changes the status or description of a
\* progress entry, the embedding "progress_<id>" of that entry is the one
\* built from the updated row.
C14_UpdateRefreshesEmbedding ==
    [][\A w \in Workspaces, i \in 1..MaxCreates, v \in Vals :
          (update_progress(w, i, v) /\ db' # db) =>
              \E e \in vec'[get_collection(collections', w)] :
                  e.id = EmbeddingId("progress", i) /\ e.text = v]_vars

\* C15: on a fresh workspace, after two updates of one context that each
\* changed its content (first to c1, then to c2),
\* diff_context_versions(context, 1, 2) describes the change from c1 to c2;
\* for c1 = {x: 1} and c2 = {x: 2, y: 3}: x changed from 1 to 2, y = 3 added.
C15_DiffDescribesUpdate ==
    \A m \in ContextModels :
        ( /\ last_update.seq = 2
          /\ last_update.model = m
          /\ Len(history[m]) = 2 )
            => diff_context_versions(m, 1, 2)
                   = Diff(last_update.before, context[m].content)

\* C16: a semantic search restricted to decisions and to one tag returns the
\* embedding id of every decision logged with that tag (D with ["db", "pg"]
\* for the tag "db") and of no decision logged without it (E with ["frontend"]).
C16_TagFilterSelects ==
    [][\A tag \in Tags :
          semantic_search_conport({"decision"}, {tag}) =>
              \A i \in 1..Len(decisions) :
                  (EmbeddingId("decision", decisions[i].id) \in search_results'.ids)
                      <=> (tag \in decisions[i].tags)]_vars

\* C17: when the vector store fails while a delete request removes the
\* item's embedding, the request goes on to its relational delete, and the
\* relational delete removes the row and reports success.
C17_VectorFailureSuppressed ==
    [][ /\ \A w \in Workspaces, ty \in ItemTypes, i \in 1..MaxCreates :
              (delete_begin(w, ty, i, FALSE) \/ delete_collection_error(w, ty, i)) =>
                  inflight' = [w |-> w, item_type |-> ty, id |-> i]
        /\ delete_commit =>
              /\ get(db'[DbPath(inflight.w)][inflight.item_type], inflight.id) = {}
              /\ last_delete'.seq = last_delete.seq + 1
              /\ last_delete'.id = inflight.id ]_vars

\* C18: get_linked_items(item_type, item_id) returns links in which the pair
\* is the source or the target, at most `limit` of them, and all of them when
\* there are no more than `limit`; so after linking decision:1 -> progress:2
\* both ends return that link.
C18_LinkedItemsBothEnds ==
    [][\A item \in ItemRefs, limit \in 1..MaxLinks :
          get_linked_items(item, limit) =>
              LET expected == {l \in links : l.source = item \/ l.target = item}
              IN /\ links_result'.status = "result"
                 /\ links_result'.rows \subseteq expected
                 /\ Cardinality(links_result'.rows) <= limit
                 /\ Cardinality(expected) <= limit => links_result'.rows = expected]_vars

\* C19: recent activity called with a `since` timestamp returns the three
\* lists decisions, progress and system_patterns, each holding the items of
\* its type whose timestamp is >= since, an item stamped exactly at `since`
\* included.
C19_RecentActivitySince ==
    [][\A since \in 1..MaxClock :
          get_recent_activity_summary(since) =>
              /\ activity_result'.status = "result"
              /\ activity_result'.decisions =
                    {r \in stamped : r.item_type = "decision" /\ r.timestamp >= since}
              /\ activity_result'.progress =
                    {r \in stamped : r.item_type = "progress" /\ r.timestamp >= since}
              /\ activity_result'.system_patterns =
                    {r \in stamped : r.item_type = "system_pattern"
                                       /\ r.timestamp >= since}]_vars

\* C20: importing the decisions.md that export_to_markdown produced into an
\* empty workspace yields decisions whose (summary, rationale) pairs are those
\* of the exported decisions.
C20_ExportImportRoundTrip ==
    [][(import_from_markdown /\ io_file = ExportText(io_decisions)) =>
          {io_imported'.rows[i] : i \in 1..Len(io_imported'.rows)}
              = {io_decisions[i] : i \in 1..Len(io_decisions)}]_vars

\* ---------------------------------------------------------------------
\* C21: a patch_content update is a shallow merge onto the content stored
\* before it: a key whose patch value is "__DELETE__" is absent afterwards,
\* every other key of the patch holds the patch's value, and a key the patch
\* does not name is present exactly if it was before, with its old value.
\* The patches {project: Nova, version: 1}, {version: 2, status: alpha},
\* {status: "__DELETE__"} applied in sequence to {} give
\* {project: Nova, version: 2}.
\* ---------------------------------------------------------------------
C21_Example ==
    LET p1 == [k \in {"project", "version"} |-> IF k = "project" THEN "Nova" ELSE "1"]
        p2 == [k \in {"version", "status"} |-> IF k = "version" THEN "2" ELSE "alpha"]
        p3 == [k \in {"status"} |-> DELETE]
    IN ApplyPatch(ApplyPatch(ApplyPatch(EmptyDict, p1), p2), p3)
         = [k \in {"project", "version"} |-> IF k = "project" THEN "Nova" ELSE "2"]

C21_PatchIsShallowMerge ==
    /\ C21_Example
    /\ last_update.kind = "patch_content" =>
          LET content == context[last_update.model].content
              patch == last_update.data
              before == last_update.before
          IN \A k \in Keys :
                IF k \in DOMAIN patch
                THEN IF patch[k] = DELETE
                     THEN k \notin DOMAIN content
                     ELSE k \in DOMAIN content /\ content[k] = patch[k]
                ELSE /\ k \in DOMAIN content <=> k \in DOMAIN before
                     /\ k \in DOMAIN before => content[k] = before[k]

\* A patch that removes the stored key "a" and does not name "b" has been
\* applied: "a" is gone and "b" is still there.
C21_Witness ==
    /\ last_update.kind = "patch_content"
    /\ DOMAIN last_update.data = {"a"}
    /\ last_update.data["a"] = DELETE
    /\ DOMAIN last_update.before = {"a", "b"}
    /\ DOMAIN context[last_update.model].content = {"b"}

\* ---------------------------------------------------------------------
\* C22: deleting a progress entry also deletes its children: when the
\* delete of a progress entry commits, neither the entry nor any row that
\* had it as parent can be retrieved afterwards, by id or in the listing.
\* ---------------------------------------------------------------------
C22_DeleteCascadesToChildren ==
    [][(delete_commit /\ inflight.item_type = "progress") =>
          LET before == db[DbPath(inflight.w)]["progress"]
              after == db'[DbPath(inflight.w)]["progress"]
          IN \A r \in before :
                (r.id = inflight.id \/ r.parent = inflight.id) =>
                    /\ get(after, r.id) = {}
                    /\ r \notin get_multi(after)]_vars

\* Two progress entries were created and one delete request has committed,
\* for entry 1, and no progress entry is left: the second entry was a child
\* of the first and went with it.
C22_Witness ==
    /\ created = 2
    /\ last_delete.seq = 1
    /\ last_delete.item_type = "progress"
    /\ last_delete.id = 1
    /\ inflight = NoRequest
    /\ \A w \in Workspaces : db[DbPath(w)]["progress"] = {}

\* ---------------------------------------------------------------------
\* C23: logging a system pattern under a name the workspace already holds
\* is rejected with a conflict error and writes nothing: no workspace has
\* two system patterns of one name, and the call that found its name taken
\* returned the error "conflict" instead of raising.
\* ---------------------------------------------------------------------
C23_DuplicateNameIsConflict ==
    /\ \A w \in Workspaces : \A r1, r2 \in db[DbPath(w)]["system_pattern"] :
            r1.key = r2.key => r1 = r2
    /\ pattern_result # NoPattern =>
            /\ pattern_result.returned = "conflict"
            /\ pattern_result.raised = "none"

\* ---------------------------------------------------------------------
\* C24: a full-text search whose FTS query fails does not fail: for
\* decisions and for custom data alike the call raises nothing and returns
\* the rows of the workspace whose text contains the query term.
\* ---------------------------------------------------------------------
C24_FtsFailureFallsBack ==
    [][\A w \in Workspaces, q \in Vals :
          /\ search_decisions_fts(w, q, FALSE) =>
                /\ fts_result'.raised = "none"
                /\ fts_result'.rows = {r \in db[DbPath(w)]["decision"] : r.val = q}
          /\ search_custom_data_value_fts(w, q, FALSE) =>
                /\ fts_result'.raised = "none"
                /\ fts_result'.rows = {r \in db[DbPath(w)]["custom_data"] : r.val = q}]_vars

\* ---------------------------------------------------------------------
\* C25: at most one migration is in flight for a workspace at any time:
\* no two worker threads that have been started and have not finished
\* run run_migrations_for_workspace for the same workspace, also after the
\* task awaiting the first one was cancelled.
\* ---------------------------------------------------------------------
C25_OneMigrationInFlight ==
    \A w \in Workspaces :
        Cardinality({t \in Tasks : ws[t] = w /\ thread[t].st \in {"started", "in_txn"}}) <= 1

\* ---------------------------------------------------------------------
\* C26: two patch_content updates of one context with disjoint keys, handled
\* by requests with their own sessions, both take effect: once both have
\* committed (and no other request has written the context) the content
\* holds the keys of both patches with the patches' values, and the history
\* row each request added holds the content that was stored when it
\* committed.
\* ---------------------------------------------------------------------
C26_NoLostUpdate ==
    \A r1, r2 \in Requests :
        (/\ r1 # r2
         /\ sessions[r1].pc = "done" /\ sessions[r1].kind = "patch_content"
         /\ sessions[r2].pc = "done" /\ sessions[r2].kind = "patch_content"
         /\ sessions[r1].model = sessions[r2].model
         /\ DOMAIN sessions[r1].data \cap DOMAIN sessions[r2].data = {}
         /\ \A r3 \in Requests \ {r1, r2} :
               ~(sessions[r3].pc = "done" /\ sessions[r3].kind = "patch_content"
                 /\ sessions[r3].model = sessions[r1].model))
        => LET m == sessions[r1].model
               content == context[m].content
           IN /\ \A r \in {r1, r2} : \A k \in DOMAIN sessions[r].data :
                    k \in DOMAIN content /\ content[k] = sessions[r].data[k]
              /\ \A r \in {r1, r2} :
                    sessions[r].version # 0 =>
                        /\ VersionRecord(history[m], sessions[r].version) # <<>>
                        /\ VersionRecord(history[m], sessions[r].version)[1].content
                              = sessions[r].before

\* ---------------------------------------------------------------------
\* C28: concurrent first reads of a singleton context all succeed: no read
\* request ends with an exception, and a read that has returned while the
\* context was never written observed the content {} of the one row id = 1.
\* ---------------------------------------------------------------------
C28_ConcurrentFirstRead ==
    \A r \in Requests :
        sessions[r].kind = "read" =>
            /\ sessions[r].pc # "raised"
            /\ (sessions[r].pc = "done" /\ history[sessions[r].model] = <<>>
                   /\ context[sessions[r].model].content = EmptyDict)
                 => (context[sessions[r].model].exists /\ sessions[r].loaded = EmptyDict)

\* ---------------------------------------------------------------------
\* C27: provided every migration terminates, every call of
\* get_session_local comes to an end, by returning a session factory, by
\* raising or by being cancelled: no task stays forever waiting for the lock
\* of its workspace or for its migration.  A task makes one call and a call
\* that has ended stays ended, so this says that from some point on no task
\* is waiting or migrating.  A failed or cancelled initialization releases
\* the lock, so no waiter is blocked forever.
\* ---------------------------------------------------------------------
C27_AcquireTerminates ==
    <>[](\A t \in Tasks : pc[t] \notin {"waiting", "migrating"})

\* An initialization of workspace w has failed or was cancelled and has
\* released the lock while another caller is still waiting on it.
C27_Witness ==
    \E t, u \in Tasks :
        /\ t # u
        /\ ws[t] = ws[u]
        /\ pc[u] \in {"raised", "cancelled"}
        /\ aborted[ws[u]] >= 1
        /\ pc[t] = "waiting"
        /\ lock_holder[LockKey(ws[t])] = 0

\* ---------------------------------------------------------------------
\* C29: update_progress on an existing entry changes exactly the fields
\* that were supplied and keeps the stored value of every other field;
\* with no field supplied it returns "No update fields provided." and
\* leaves the entry as it was.
\* ---------------------------------------------------------------------
C29_UpdateChangesSuppliedFields ==
    (update_result.outcome # "none" /\ update_result.before # <<>>) =>
        LET args == update_result.args
            before == update_result.before[1]
            after == update_result.after[1]
            supplied == {f \in ProgressFields :
                           args[f] # (IF f = "parent_id" THEN NoParent ELSE None)}
        IN IF supplied = {}
           THEN update_result.outcome = "No update fields provided." /\ after = before
           ELSE /\ update_result.outcome = "updated"
                /\ \A f \in ProgressFields :
                      after[f] = IF f \in supplied THEN args[f] ELSE before[f]

\* ---------------------------------------------------------------------
\* C30: when the delete of a progress entry removes child entries by
\* cascade, the embedding "progress_<child id>" of every removed child is
\* gone from the workspace's collection once the delete has committed.
\* ---------------------------------------------------------------------
C30_CascadeRemovesChildEmbeddings ==
    [][(delete_commit /\ inflight.item_type = "progress") =>
          LET before == db[DbPath(inflight.w)]["progress"]
              after == db'[DbPath(inflight.w)]["progress"]
              removed_children == {r \in before : r.id # inflight.id /\ get(after, r.id) = {}}
          IN \A r \in removed_children :
                \A e \in vec'[get_collection(collections', inflight.w)] :
                    e.id # EmbeddingId("progress", r.id)]_vars
====
